---- MODULE Spec2Model ----
(***************************************************************************)
(* A model of the receipt scanner: the doc_extractor package               *)
(* (pipeline.py, extraction.py, preprocessing.py, __init__.py) and the     *)
(* result handling of its two callers (app.py, example_usage.py).          *)
(*                                                                         *)
(* One behaviour follows one operation from its call to its end; the       *)
(* variable op says which (Spec: pipeline, SpecFunctions: the others):     *)
(*   pipeline      process_receipt_dataset, then a caller's summary/export *)
(*   extract       extract_receipt_info on one model response              *)
(*   categorize    categorize_expense                                      *)
(*   preprocess    process_one_image                                       *)
(*   import        the import of the package by a caller                   *)
(*                                                                         *)
(* Text is modelled as a sequence of tokens.  A file path or a merchant    *)
(* name is a sequence of one-character strings.  A model response is a     *)
(* sequence over ResponseTokens, each token standing for the characters    *)
(* written in its comment; backticks occur in runs of three only.          *)
(* Python values that may be None are wrapped: Null, Num(n), Str(s).       *)
(***************************************************************************)
EXTENDS Integers, Sequences, FiniteSets, TLC

VARIABLES
    op,            \* the operation this behaviour follows
    \* ---- process_receipt_dataset and its callers
    file_paths,    \* argument: the list of paths
    sleep_time,    \* argument: seconds between files
    pc,            \* position in process_receipt_dataset / the caller
    num,           \* loop index of enumerate(file_paths), 0-based
    images,        \* the images loaded for the current file
    pending,       \* (extracted_information, usage_metadata) or the exception e
    results,       \* the list being built
    events,        \* history of loads, model calls, appends, sleeps, raises
    export,        \* what the caller made of the returned list
    \* ---- extract_receipt_info
    response,      \* the hosted model's response (or its failure)
    ext_result,    \* what extract_receipt_info returned or raised
    \* ---- categorize_expense
    arg_merchant,  \* argument merchant_name
    arg_items,     \* argument items
    category,      \* the returned category
    \* ---- process_one_image
    image,         \* the local variable image
    pp_pc,         \* idle, running, done or raised
    pp_calls,      \* the calls made: function, argument, result
    \* ---- package import
    importer,      \* the importing script
    im_pc,         \* position in doc_extractor/__init__.py
    namespace,     \* names bound in the package so far
    im_error       \* the ImportError raised, or Null

pipeVars == <<file_paths, sleep_time, pc, num, images, pending, results, events, export>>
extVars  == <<response, ext_result>>
catVars  == <<arg_merchant, arg_items, category>>
ppVars   == <<image, pp_pc, pp_calls>>
imVars   == <<importer, im_pc, namespace, im_error>>
vars     == <<op, pipeVars, extVars, catVars, ppVars, imVars>>

(***************************************************************************)
(* Bounds of the model.                                                    *)
(***************************************************************************)
MaxFiles   == 3    \* longest file_paths list
MaxTextLen == 4    \* longest response text, in tokens
MaxWords   == 2    \* most words in a merchant name
MaxImages  == 2    \* distinct source images given to process_one_image

(***************************************************************************)
(* Python values.                                                          *)
(***************************************************************************)
Null    == [t |-> "null"]
Num(n)  == [t |-> "num", v |-> n]
Str(s)  == [t |-> "str", v |-> s]
Idle    == [t |-> "idle"]

Exc(type, msg) == [type |-> type, msg |-> msg]
\* str(e)
str(e) == e.msg

\* d.get(key, default) on a dict modelled as a record
Get(d, key, default) == IF key \in DOMAIN d THEN d[key] ELSE default

RECURSIVE Concat(_)
Concat(ss) == IF ss = <<>> THEN <<>> ELSE Head(ss) \o Concat(Tail(ss))

\* all sequences over S of length at most n
SeqsUpTo(S, n) == UNION {[1..k -> S] : k \in 0..n}

(***************************************************************************)
(* str methods, on sequences of characters or tokens.                      *)
(***************************************************************************)
UpperToLower ==
    LET upper == <<"A", "B", "C", "D", "E", "F", "G", "H", "I", "J", "K", "L", "M",
                   "N", "O", "P", "Q", "R", "S", "T", "U", "V", "W", "X", "Y", "Z">>
        small == <<"a", "b", "c", "d", "e", "f", "g", "h", "i", "j", "k", "l", "m",
                   "n", "o", "p", "q", "r", "s", "t", "u", "v", "w", "x", "y", "z">>
    IN  [c \in {upper[i] : i \in 1..Len(upper)} |->
            small[CHOOSE i \in 1..Len(upper) : upper[i] = c]]

\* s.lower()
lower(s) == [i \in 1..Len(s) |-> IF s[i] \in DOMAIN UpperToLower THEN UpperToLower[s[i]] ELSE s[i]]

\* s.startswith(prefix)
startswith(s, prefix) ==
    Len(s) >= Len(prefix) /\ SubSeq(s, 1, Len(prefix)) = prefix

\* s.endswith(suffix)
endswith(s, suffix) ==
    Len(s) >= Len(suffix) /\ SubSeq(s, Len(s) - Len(suffix) + 1, Len(s)) = suffix

\* keyword in s
contains(s, keyword) ==
    \E i \in 0..(Len(s) - Len(keyword)) : SubSeq(s, i + 1, i + Len(keyword)) = keyword

\* s.replace(old, empty string): the occurrences of old, found left to right without
\* overlap, are removed
RECURSIVE remove(_, _)
remove(s, old) ==
    IF Len(s) < Len(old) THEN s
    ELSE IF SubSeq(s, 1, Len(old)) = old
         THEN remove(SubSeq(s, Len(old) + 1, Len(s)), old)
         ELSE <<Head(s)>> \o remove(Tail(s), old)

Whitespace == {" "}

RECURSIVE lstrip(_)
lstrip(s) == IF s # <<>> /\ Head(s) \in Whitespace THEN lstrip(Tail(s)) ELSE s

RECURSIVE rstrip(_)
rstrip(s) ==
    IF s # <<>> /\ s[Len(s)] \in Whitespace THEN rstrip(SubSeq(s, 1, Len(s) - 1)) ELSE s

\* s.strip()
strip(s) == rstrip(lstrip(s))

(***************************************************************************)
(* Response text and json.loads.                                           *)
(*   FENCE   three backticks                                               *)
(*   json    the word json                                                 *)
(*   space   a whitespace character                                        *)
(*   1       the digit 1                                                   *)
(*   {m:     an object begins: total is 5, merchant_name is a string whose *)
(*           opening quote is written                                      *)
(*   {n:     an object begins: total is null, merchant_name likewise       *)
(*   {i:     an object begins: total is null, items is one item of price 2 *)
(*           and quantity 3, address is a string likewise                  *)
(*   }       the closing quote of the string and the closing brace         *)
(* An object is an opening token, the characters of its last string value  *)
(* and the closing token.                                                  *)
(***************************************************************************)
FENCE      == "FENCE"
OpenTokens == {"{m:", "{n:", "{i:"}
CLOSE      == "}"
StringTokens   == {FENCE, "json", " ", "1"}   \* may stand inside a JSON string
ResponseTokens == StringTokens \cup OpenTokens \cup {CLOSE}

\* the int written as n digits 1
RECURSIVE Ones(_)
Ones(n) == IF n = 0 THEN 0 ELSE 10 * Ones(n - 1) + 1

IsJsonNumber(s) == s # <<>> /\ \A i \in 1..Len(s) : s[i] = "1"

IsJsonObject(s) ==
    /\ Len(s) >= 2
    /\ s[1] \in OpenTokens
    /\ s[Len(s)] = CLOSE
    /\ \A i \in 2..(Len(s) - 1) : s[i] \in StringTokens

\* whether json.loads(s) returns (otherwise it raises json.JSONDecodeError);
\* json.loads skips whitespace around the one value
JsonValid(s) == IsJsonNumber(strip(s)) \/ IsJsonObject(strip(s))

ObjectOf(s) ==
    LET inner == Str(SubSeq(s, 2, Len(s) - 1)) IN
    CASE s[1] = "{m:" -> [total |-> Num(5), merchant_name |-> inner]
      [] s[1] = "{n:" -> [total |-> Null, merchant_name |-> inner]
      [] s[1] = "{i:" -> [total |-> Null,
                          items |-> <<[price |-> 2, quantity |-> 3]>>,
                          address |-> inner]

\* json.loads(s) for a valid s
json_loads(s) ==
    IF IsJsonNumber(strip(s)) THEN Num(Ones(Len(strip(s)))) ELSE ObjectOf(strip(s))

IsDict(v) == "t" \notin DOMAIN v

(***************************************************************************)
(* extraction.py: extract_receipt_info.                                    *)
(* A response is [kind |-> "raise", exc] when generate_content raises and  *)
(* [kind |-> ok, text, usage_metadata] otherwise; text is Str(tokens) or   *)
(* Null.  The result is [kind |-> return, info, usage] or                  *)
(* [kind |-> raise, exc].                                                  *)
(***************************************************************************)
\* a variant that removes the fences wherever the text starts
CleanAnyFence(text) ==
    strip(remove(remove(strip(text), <<FENCE, "json">>), <<FENCE>>))

\* response_text after lines 84-87
CleanResponseText(text) ==
    IF startswith(strip(text), <<FENCE>>)
    THEN strip(remove(remove(strip(text), <<FENCE, "json">>), <<FENCE>>))
    ELSE strip(text)

RECURSIVE SumItems(_)
SumItems(its) ==
    IF its = <<>> THEN 0
    ELSE Get(Head(its), "price", 0) * Get(Head(its), "quantity", 1) + SumItems(Tail(its))

\* bool(v) of a wrapped value
Truthy(v) == v \notin {Null, Num(0), Str(<<>>)}

\* lines 92-99: subtotal from the items when none was given
AddSubtotal(info) ==
    IF /\ "items" \in DOMAIN info /\ info.items # <<>>
       /\ ~Truthy(Get(info, "subtotal", Null))
       /\ SumItems(info.items) > 0
    THEN [k \in DOMAIN info \cup {"subtotal"} |->
            IF k = "subtotal" THEN Num(SumItems(info.items)) ELSE info[k]]
    ELSE info

\* a variant that reports the cleaned text as raw_response
ParseFailureCleaned(response_text) ==
    [error |-> Str(<<"Failed to parse receipt">>),
     raw_response |-> Str(CleanResponseText(response_text.v))]

\* lines 107-110: the result when json.loads raised
ParseFailure(response_text) ==
    [error |-> Str(<<"Failed to parse receipt">>), raw_response |-> response_text]

extract_receipt_info(resp) ==
    IF resp.kind = "raise" THEN [kind |-> "raise", exc |-> resp.exc]
    ELSE IF resp.text = Null
    THEN [kind |-> "raise",
          exc |-> Exc("AttributeError", "NoneType object has no attribute strip")]
    ELSE IF ~JsonValid(CleanResponseText(resp.text.v))
    THEN [kind |-> "return",
          info |-> ParseFailure(resp.text),
          usage |-> resp.usage_metadata]
    ELSE IF ~IsDict(json_loads(CleanResponseText(resp.text.v)))
    THEN [kind |-> "raise",
          exc |-> Exc("AttributeError", "int object has no attribute get")]
    ELSE [kind |-> "return",
          info |-> AddSubtotal(json_loads(CleanResponseText(resp.text.v))),
          usage |-> resp.usage_metadata]

\* usage_metadata of a response: with or without thoughts_token_count, or None
UsageThinking == [prompt_token_count |-> 7, candidates_token_count |-> 3,
                  total_token_count |-> 12, thoughts_token_count |-> 2]
UsagePlain    == [prompt_token_count |-> 7, candidates_token_count |-> 3,
                  total_token_count |-> 10]

ApiError == Exc("ClientError", "429 RESOURCE_EXHAUSTED")

(***************************************************************************)
(* pipeline.py: process_receipt_dataset.                                   *)
(***************************************************************************)
PdfPath == <<"a", ".", "P", "D", "F">>
JpgPath == <<"b", ".", "j", "p", "g">>
Paths   == {PdfPath, JpgPath}

\* pages convert_from_path yields for the PDF
PdfPages == 2

SleepTimes == {0, 2}

\* text of a response: FENCE json {m: } FENCE and the like
Text(tokens) == Str(tokens)

\* the responses the hosted model gives in a pipeline run
ModelResponses ==
    { [kind |-> "raise", exc |-> ApiError],
      [kind |-> "ok", text |-> Text(<<FENCE, "json", "{m:", "1", CLOSE, FENCE>>),
       usage_metadata |-> UsageThinking],
      [kind |-> "ok", text |-> Text(<<"{n:", "1", CLOSE>>), usage_metadata |-> UsagePlain],
      [kind |-> "ok", text |-> Text(<<"{i:", "1", CLOSE>>), usage_metadata |-> UsagePlain],
      [kind |-> "ok", text |-> Text(<<"1", FENCE, "{m:", CLOSE>>),
       usage_metadata |-> UsagePlain] }

LoadError == Exc("OSError", "cannot open file")

Event(ev, i, what) == [ev |-> ev, i |-> i, what |-> what]

ZeroUsage == [prompt |-> 0, thoughts |-> 0, output |-> 0, total |-> 0]

\* lines 65-74
SuccessEntry(file_path, info, usage) ==
    [file_path |-> file_path,
     extracted_info |-> info,
     token_usage |-> [prompt |-> usage.prompt_token_count,
                      thoughts |-> Get(usage, "thoughts_token_count", 0),
                      output |-> usage.candidates_token_count,
                      total |-> usage.total_token_count]]

\* a variant whose error entry counts tokens
ErrorEntryKeepsTokens(file_path, e) ==
    [file_path |-> file_path,
     extracted_info |-> [error |-> Str(<<str(e)>>)],
     token_usage |-> [prompt |-> 1, thoughts |-> 0, output |-> 0, total |-> 1]]

\* lines 78-87
ErrorEntry(file_path, e) ==
    [file_path |-> file_path,
     extracted_info |-> [error |-> Str(<<str(e)>>)],
     token_usage |-> ZeroUsage]

\* the exception lines 53-63 raise, or Null: total formatted with .2f when
\* merchant_name is a key, then the token counts read off usage_metadata
DisplayError(info, usage) ==
    IF "merchant_name" \in DOMAIN info /\ Get(info, "total", Num(0)).t # "num"
    THEN Exc("TypeError", "unsupported format string passed to NoneType.__format__")
    ELSE IF usage = Null
    THEN Exc("AttributeError", "NoneType object has no attribute prompt_token_count")
    ELSE Null

PipelineIdle ==
    /\ file_paths = <<>> /\ sleep_time = 0 /\ pc = "idle" /\ num = -1
    /\ images = <<>> /\ pending = Idle /\ results = <<>> /\ events = <<>>
    /\ export = Idle

\* lines 22-23: the call
PipelineInit ==
    /\ file_paths \in SeqsUpTo(Paths, MaxFiles)
    /\ sleep_time \in SleepTimes
    /\ pc = "for" /\ num = -1
    /\ images = <<>> /\ pending = Idle /\ results = <<>> /\ events = <<>>
    /\ export = Idle

\* line 29: the for statement takes the next path or leaves the loop
For ==
    /\ op = "pipeline" /\ pc = "for"
    /\ IF num + 1 < Len(file_paths)
       THEN num' = num + 1 /\ pc' = "load"
       ELSE num' = num /\ pc' = "finish"
    /\ UNCHANGED <<file_paths, sleep_time, images, pending, results, events, export>>

\* lines 35-42: the file is converted or opened, or that raises
Load ==
    /\ op = "pipeline" /\ pc = "load"
    /\ \/ /\ pending' = LoadError
          /\ images' = <<>>
          /\ events' = Append(events, Event("raise", num, [at |-> "load", exc |-> LoadError]))
          /\ pc' = "except"
       \/ /\ images' = IF endswith(lower(file_paths[num + 1]), <<".", "p", "d", "f">>)
                       THEN [k \in 1..PdfPages |-> k]
                       ELSE <<1>>
          /\ events' = Append(events, Event("load", num, images'))
          /\ pending' = Idle
          /\ pc' = "extract"
    /\ UNCHANGED <<file_paths, sleep_time, num, results, export>>

\* a variant that calls the model again when the call raised
ExtractWithRetry ==
    /\ op = "pipeline" /\ pc = "extract"
    /\ \E resp \in ModelResponses, again \in ModelResponses :
         LET first == extract_receipt_info(resp)
             r == IF first.kind = "raise" THEN extract_receipt_info(again) ELSE first IN
         /\ events' = (IF first.kind = "raise"
                       THEN Append(events, Event("call", num, images))
                       ELSE events)
                      \o <<Event("call", num, images)>>
                      \o (IF r.kind = "raise" THEN <<Event("raise", num, [at |-> "extract", exc |-> r.exc])>> ELSE <<>>)
         /\ pending' = IF r.kind = "raise" THEN r.exc ELSE r
         /\ pc' = IF r.kind = "raise" THEN "except" ELSE "display"
    /\ UNCHANGED <<file_paths, sleep_time, num, images, results, export>>

\* lines 45-49: extract_receipt_info(images, api_key, model), one request to
\* the hosted model with all the images
Extract ==
    /\ op = "pipeline" /\ pc = "extract"
    /\ \E resp \in ModelResponses :
         LET r == extract_receipt_info(resp) IN
         /\ events' = events \o <<Event("call", num, images)>>
                      \o (IF r.kind = "raise" THEN <<Event("raise", num, [at |-> "extract", exc |-> r.exc])>> ELSE <<>>)
         /\ pending' = IF r.kind = "raise" THEN r.exc ELSE r
         /\ pc' = IF r.kind = "raise" THEN "except" ELSE "display"
    /\ UNCHANGED <<file_paths, sleep_time, num, images, results, export>>

\* lines 51-74: the summary is printed and the entry appended
Display ==
    /\ op = "pipeline" /\ pc = "display"
    /\ LET e == DisplayError(pending.info, pending.usage) IN
       IF e # Null
       THEN /\ pending' = e
            /\ events' = Append(events, Event("raise", num, [at |-> "display", exc |-> e]))
            /\ pc' = "except"
            /\ UNCHANGED results
       ELSE /\ results' = Append(results,
                                 SuccessEntry(file_paths[num + 1], pending.info, pending.usage))
            /\ events' = Append(events, Event("append", num, "ok"))
            /\ pending' = Idle
            /\ pc' = "rate"
    /\ UNCHANGED <<file_paths, sleep_time, num, images, export>>

\* a variant that swallows the exception without an entry
ExceptDropsEntry ==
    /\ op = "pipeline" /\ pc = "except"
    /\ pending' = Idle
    /\ pc' = "rate"
    /\ UNCHANGED <<file_paths, sleep_time, num, images, results, events, export>>

\* lines 76-87: except Exception as e
Except ==
    /\ op = "pipeline" /\ pc = "except"
    /\ results' = Append(results, ErrorEntry(file_paths[num + 1], pending))
    /\ events' = Append(events, Event("append", num, "error"))
    /\ pending' = Idle
    /\ pc' = "rate"
    /\ UNCHANGED <<file_paths, sleep_time, num, images, export>>

\* a variant that sleeps only after a file without error
RateLimitAfterSuccessOnly ==
    /\ op = "pipeline" /\ pc = "rate"
    /\ events' = IF /\ num < Len(file_paths) - 1
                    /\ sleep_time > 0
                    /\ "error" \notin DOMAIN results[Len(results)].extracted_info
                 THEN Append(events, Event("sleep", num, sleep_time))
                 ELSE events
    /\ pc' = "for"
    /\ UNCHANGED <<file_paths, sleep_time, num, images, pending, results, export>>

\* lines 91-95: rate limiting
RateLimit ==
    /\ op = "pipeline" /\ pc = "rate"
    /\ events' = IF num < Len(file_paths) - 1 /\ sleep_time > 0
                 THEN Append(events, Event("sleep", num, sleep_time))
                 ELSE events
    /\ pc' = "for"
    /\ UNCHANGED <<file_paths, sleep_time, num, images, pending, results, export>>

\* lines 97-104: the timing summary, with elapsed_time/len(file_paths), and
\* the return
Finish ==
    /\ op = "pipeline" /\ pc = "finish"
    /\ IF Len(file_paths) = 0
       THEN /\ pending' = Exc("ZeroDivisionError", "float division by zero")
            /\ pc' = "raised"
       ELSE /\ pending' = Idle
            /\ pc' = "returned"
    /\ UNCHANGED <<file_paths, sleep_time, num, images, results, events, export>>

(***************************************************************************)
(* The callers' handling of the returned list: app.py and the rest of      *)
(* main() in example_usage.py.                                             *)
(***************************************************************************)
HasError(r) == "error" \in DOMAIN r.extracted_info

\* app.py lines 371-380
AppCsvRow(info) ==
    [Date |-> Get(info, "date", Str(<<>>)),
     Merchant |-> Get(info, "merchant_name", Str(<<>>)),
     Category |-> Get(info, "category", Str(<<>>)),
     Subtotal |-> Get(info, "subtotal", Num(0)),
     Tax |-> Get(info, "tax", Num(0)),
     Total |-> Get(info, "total", Num(0)),
     PaymentMethod |-> Get(info, "payment_method", Str(<<>>)),
     ReceiptNumber |-> Get(info, "receipt_number", Str(<<>>))]

\* example_usage.py lines 103-111
ExampleCsvRow(info) ==
    [Date |-> Get(info, "date", Str(<<>>)),
     Merchant |-> Get(info, "merchant_name", Str(<<>>)),
     Category |-> Get(info, "category", Str(<<>>)),
     Subtotal |-> Get(info, "subtotal", Num(0)),
     Tax |-> Get(info, "tax", Num(0)),
     Total |-> Get(info, "total", Num(0)),
     PaymentMethod |-> Get(info, "payment_method", Str(<<>>))]

\* a variant that writes a row for every entry
RowsOfAllEntries(rs) == rs

\* the entries a CSV row is written for: app.py lines 368-370,
\* example_usage.py lines 100-102
RowEntries(rs) == SelectSeq(rs, LAMBDA r : ~HasError(r))

\* app.py lines 367-380
AppCsvData(rs) ==
    LET kept == RowEntries(rs) IN
    [j \in 1..Len(kept) |-> AppCsvRow(kept[j].extracted_info)]

\* example_usage.py lines 100-111
ExampleCsvData(rs) ==
    LET kept == RowEntries(rs) IN
    [j \in 1..Len(kept) |-> ExampleCsvRow(kept[j].extracted_info)]

\* example_usage.py lines 68-79: the receipt summaries; total is formatted
\* with .2f for every entry without an error
ExampleSummaryRaises(rs) ==
    \E i \in 1..Len(rs) :
        ~HasError(rs[i]) /\ Get(rs[i].extracted_info, "total", Num(0)).t # "num"

\* app.py lines 170-172 and 184-396: the results are shown and the exports
\* offered
AppShowResults ==
    /\ op = "pipeline" /\ pc = "returned"
    /\ results # <<>>
    /\ export' = [caller |-> "app",
                  csv_rows |-> AppCsvData(results),
                  csv_offered |-> AppCsvData(results) # <<>>]
    /\ pc' = "app_shown"
    /\ UNCHANGED <<file_paths, sleep_time, num, images, pending, results, events>>

\* example_usage.py lines 50-113: summary, JSON file, optional CSV file
ExampleReport ==
    /\ op = "pipeline" /\ pc = "returned"
    /\ IF ExampleSummaryRaises(results)
       THEN /\ export' = [caller |-> "example", csv_rows |-> <<>>, csv_offered |-> FALSE]
            /\ pc' = "example_raised"
       ELSE \E export_csv \in {"y", "n"} :
            /\ export' = [caller |-> "example",
                          csv_rows |-> IF export_csv = "y" THEN ExampleCsvData(results)
                                       ELSE <<>>,
                          csv_offered |-> export_csv = "y"]
            /\ pc' = "example_done"
    /\ UNCHANGED <<file_paths, sleep_time, num, images, pending, results, events>>

(***************************************************************************)
(* extract_receipt_info on its own.                                        *)
(***************************************************************************)
ResponseTexts == {Null} \cup {Str(s) : s \in SeqsUpTo(ResponseTokens, MaxTextLen)}

Responses ==
    {[kind |-> "raise", exc |-> ApiError]} \cup
    {[kind |-> "ok", text |-> txt, usage_metadata |-> u] :
        txt \in ResponseTexts, u \in {UsageThinking, Null}}

ExtractIdle == response = Idle /\ ext_result = Idle

ExtractInit == response \in Responses /\ ext_result = Idle

\* extraction.py lines 50-112
ExtractReceiptInfo ==
    /\ op = "extract" /\ ext_result = Idle
    /\ ext_result' = extract_receipt_info(response)
    /\ UNCHANGED response

(***************************************************************************)
(* extraction.py: categorize_expense.                                      *)
(***************************************************************************)
food_keywords ==
    << <<"r","e","s","t","a","u","r","a","n","t">>,
       <<"c","a","f","e">>,
       <<"c","o","f","f","e","e">>,
       <<"s","t","a","r","b","u","c","k","s">>,
       <<"b","u","r","g","e","r">>,
       <<"p","i","z","z","a">>,
       <<"d","i","n","e","r">>,
       <<"b","a","r">> >>

office_keywords ==
    << <<"s","t","a","p","l","e","s">>,
       <<"o","f","f","i","c","e">>,
       <<"d","e","p","o","t">>,
       <<"s","u","p","p","l","i","e","s">>,
       <<"a","m","a","z","o","n">> >>

transport_keywords ==
    << <<"u","b","e","r">>,
       <<"l","y","f","t">>,
       <<"t","a","x","i">>,
       <<"p","a","r","k","i","n","g">>,
       <<"g","a","s">>,
       <<"f","u","e","l">>,
       <<"s","h","e","l","l">>,
       <<"c","h","e","v","r","o","n">> >>

lodging_keywords ==
    << <<"h","o","t","e","l">>,
       <<"m","o","t","e","l">>,
       <<"a","i","r","b","n","b">>,
       <<"i","n","n">>,
       <<"r","e","s","o","r","t">> >>

travel_keywords ==
    << <<"a","i","r","l","i","n","e">>,
       <<"a","i","r","p","o","r","t">>,
       <<"f","l","i","g","h","t">>,
       <<"t","r","a","i","n">>,
       <<"r","e","n","t","a","l">> >>

\* line 32 of extraction.py: the categories the prompt lists
PromptCategories ==
    {"Meals & Entertainment", "Travel", "Office Supplies", "Transportation",
     "Lodging", "Other"}

any_keyword_in(keywords, merchant_lower) ==
    \E k \in 1..Len(keywords) : contains(merchant_lower, keywords[k])

\* a variant that tests the Lodging keywords before the Transportation ones
LodgingBeforeTransportation(merchant_name, items) ==
    LET merchant_lower == IF Truthy(merchant_name) THEN lower(merchant_name.v) ELSE <<>> IN
    IF any_keyword_in(food_keywords, merchant_lower) THEN "Meals & Entertainment"
    ELSE IF any_keyword_in(office_keywords, merchant_lower) THEN "Office Supplies"
    ELSE IF any_keyword_in(lodging_keywords, merchant_lower) THEN "Lodging"
    ELSE IF any_keyword_in(transport_keywords, merchant_lower) THEN "Transportation"
    ELSE IF any_keyword_in(travel_keywords, merchant_lower) THEN "Travel"
    ELSE "Other"

\* lines 115-154
categorize_expense(merchant_name, items) ==
    LET merchant_lower == IF Truthy(merchant_name) THEN lower(merchant_name.v) ELSE <<>> IN
    IF any_keyword_in(food_keywords, merchant_lower) THEN "Meals & Entertainment"
    ELSE IF any_keyword_in(office_keywords, merchant_lower) THEN "Office Supplies"
    ELSE IF any_keyword_in(transport_keywords, merchant_lower) THEN "Transportation"
    ELSE IF any_keyword_in(lodging_keywords, merchant_lower) THEN "Lodging"
    ELSE IF any_keyword_in(travel_keywords, merchant_lower) THEN "Travel"
    ELSE "Other"

\* words merchant names are made of
Words ==
    { <<"P","i","z","z","a">>, <<"B","A","R">>, <<"O","f","f","i","c","e">>,
      <<"G","a","s">>, <<"H","o","t","e","l">>, <<"i","n","n">>,
      <<"A","i","r","p","o","r","t">>, <<"t","r","a","i","n">>,
      <<"J","o","e">>, <<" ","&"," ">> }

MerchantNames ==
    {Null} \cup {Str(Concat(ws)) : ws \in SeqsUpTo(Words, MaxWords)}

ItemLists == { <<>>, <<[name |-> <<"c","o","f","f","e","e">>, quantity |-> 1, price |-> 4]>> }

NoCategory == "(not returned)"

CategorizeIdle == arg_merchant = Null /\ arg_items = <<>> /\ category = NoCategory

CategorizeInit ==
    /\ arg_merchant \in MerchantNames
    /\ arg_items \in ItemLists
    /\ category = NoCategory

CategorizeExpense ==
    /\ op = "categorize" /\ category = NoCategory
    /\ category' = categorize_expense(arg_merchant, arg_items)
    /\ UNCHANGED <<arg_merchant, arg_items>>

(***************************************************************************)
(* preprocessing.py: process_one_image.                                    *)
(* An image is [id, kind, channels, dark, ops]: kind is ndarray or PIL,    *)
(* dark says that its binarized form has no non-zero pixel, ops lists the  *)
(* filters applied to it so far.                                           *)
(***************************************************************************)
SourceImages ==
    {[id |-> i, kind |-> k, channels |-> c, dark |-> d, ops |-> <<>>] :
        i \in 1..MaxImages, k \in {"ndarray", "PIL"}, c \in {1, 3, 4}, d \in BOOLEAN}

Returned(v) == [kind |-> "return", value |-> v]
Raised(e)   == [kind |-> "raise", exc |-> e]

Filtered(img, name, channels) ==
    [id |-> img.id, kind |-> "ndarray", channels |-> channels, dark |-> img.dark,
     ops |-> Append(img.ops, name)]

\* lines 22-31: cv2.cvtColor(image, cv2.COLOR_BGR2GRAY)
convert_to_grayscale(img) ==
    IF img.kind # "ndarray" THEN Raised(Exc("cv2.error", "src is not a numpy array"))
    ELSE IF img.channels \notin {3, 4}
    THEN Raised(Exc("cv2.error", "Invalid number of channels in input image"))
    ELSE Returned(Filtered(img, "gray", 1))

\* lines 34-44: cv2.GaussianBlur
reduce_noise(img) ==
    IF img.kind # "ndarray" THEN Raised(Exc("cv2.error", "src is not a numpy array"))
    ELSE Returned(Filtered(img, "blur", img.channels))

\* lines 47-64: cv2.adaptiveThreshold
binarize_image(img) ==
    IF img.kind # "ndarray" THEN Raised(Exc("cv2.error", "src is not a numpy array"))
    ELSE IF img.channels # 1 THEN Raised(Exc("cv2.error", "type is not CV_8UC1"))
    ELSE Returned(Filtered(img, "binary", 1))

\* lines 67-111: cv2.findNonZero yields None for an image without non-zero
\* pixels and cv2.minAreaRect raises on it
deskew_image(img) ==
    IF img.kind # "ndarray" THEN Raised(Exc("cv2.error", "src is not a numpy array"))
    ELSE IF img.channels # 1 THEN Raised(Exc("cv2.error", "type is not CV_8UC1"))
    ELSE IF img.dark THEN Raised(Exc("cv2.error", "points is empty"))
    ELSE Returned(Filtered(img, "deskew", 1))

Apply(fn, img) ==
    CASE fn = "convert_to_grayscale" -> convert_to_grayscale(img)
      [] fn = "reduce_noise" -> reduce_noise(img)
      [] fn = "binarize_image" -> binarize_image(img)
      [] fn = "deskew_image" -> deskew_image(img)

\* a variant that binarizes before it reduces noise
StepsBinarizeBeforeBlur ==
    <<"convert_to_grayscale", "binarize_image", "reduce_noise", "deskew_image">>

\* lines 124-130: the calls of process_one_image, in the order written
ProcessOneImageSteps ==
    <<"convert_to_grayscale", "reduce_noise", "binarize_image", "deskew_image">>

PreprocessIdle == image = Idle /\ pp_pc = "idle" /\ pp_calls = <<>>

PreprocessInit == image \in SourceImages /\ pp_pc = "running" /\ pp_calls = <<>>

\* one of lines 124, 126, 128, 130: image = f(image)
FilterStep ==
    /\ op = "preprocess" /\ pp_pc = "running"
    /\ Len(pp_calls) < Len(ProcessOneImageSteps)
    /\ LET fn == ProcessOneImageSteps[Len(pp_calls) + 1]
           r == Apply(fn, image) IN
       /\ pp_calls' = Append(pp_calls, [fn |-> fn, arg |-> image, ret |-> r])
       /\ IF r.kind = "raise"
          THEN pp_pc' = "raised" /\ image' = image
          ELSE pp_pc' = "running" /\ image' = r.value

\* line 132: return image
ReturnImage ==
    /\ op = "preprocess" /\ pp_pc = "running"
    /\ Len(pp_calls) = Len(ProcessOneImageSteps)
    /\ pp_pc' = "done"
    /\ UNCHANGED <<image, pp_calls>>

(***************************************************************************)
(* doc_extractor/__init__.py: the import of the package.                   *)
(***************************************************************************)
\* the names each submodule binds at its top level
ModuleNames ==
    [preprocessing |-> {"convert_from_path", "cv2", "convert_pdf_to_image",
                        "convert_to_grayscale", "reduce_noise", "binarize_image",
                        "deskew_image", "process_one_image"},
     extraction    |-> {"json", "genai", "RECEIPT_EXTRACTION_PROMPT",
                        "extract_receipt_info", "categorize_expense"},
     pipeline      |-> {"time", "convert_from_path", "extract_receipt_info",
                        "process_receipt_dataset"}]

From(module, name) == [stmt |-> "from", module |-> module, name |-> name]
Assign(name)       == [stmt |-> "assign", module |-> "doc_extractor", name |-> name]

\* app.py line 14, example_usage.py line 12
Importers == {"app.py", "example_usage.py"}
ImportedName == "process_receipt_dataset"

\* lines 8-24: the names __init__.py imports from its submodules, in order
InitImports ==
    << From("preprocessing", "convert_pdf_to_image"),
       From("preprocessing", "convert_to_grayscale"),
       From("preprocessing", "reduce_noise"),
       From("preprocessing", "binarize_image"),
       From("preprocessing", "deskew_image"),
       From("preprocessing", "process_one_image"),
       From("extraction", "extract_text_from_image"),
       From("extraction", "extract_resume_info"),
       From("pipeline", "process_resume_dataset") >>

\* the statements the importer's from-import runs: __init__.py (lines 8-24,
\* then __version__ and __all__, lines 26-43), then the lookup of the
\* imported name in the package
ImportStatements ==
    InitImports \o <<Assign("__version__"), Assign("__all__")>>
                \o <<From("doc_extractor", ImportedName)>>

ImportIdle == importer = "none" /\ im_pc = 0 /\ namespace = {} /\ im_error = Null

ImportInit == importer \in Importers /\ im_pc = 1 /\ namespace = {} /\ im_error = Null

ImportDone == im_pc = Len(ImportStatements) + 1

\* the names bound in a module when a from-import looks one up
NamesOf(module) == IF module = "doc_extractor" THEN namespace ELSE ModuleNames[module]

\* the next statement: a name of a from-import is looked up in its module
\* and bound, or ImportError is raised; an assignment binds its name
ImportStep ==
    /\ op = "import" /\ im_error = Null
    /\ im_pc \in 1..Len(ImportStatements)
    /\ LET st == ImportStatements[im_pc] IN
       IF st.stmt = "from" /\ st.name \notin NamesOf(st.module)
       THEN /\ im_error' = Exc("ImportError", st.name)
            /\ UNCHANGED <<namespace, im_pc>>
       ELSE /\ namespace' = IF st.module = "doc_extractor" /\ st.stmt = "from"
                            THEN namespace
                            ELSE namespace \cup {st.name}
            /\ im_pc' = im_pc + 1
            /\ im_error' = Null
    /\ UNCHANGED importer

(***************************************************************************)
(* The specification.                                                      *)
(***************************************************************************)
InitOf(ops) ==
    /\ op \in ops
    /\ IF op = "pipeline" THEN PipelineInit ELSE PipelineIdle
    /\ IF op = "extract" THEN ExtractInit ELSE ExtractIdle
    /\ IF op = "categorize" THEN CategorizeInit ELSE CategorizeIdle
    /\ IF op = "preprocess" THEN PreprocessInit ELSE PreprocessIdle
    /\ IF op = "import" THEN ImportInit ELSE ImportIdle

\* process_receipt_dataset and what its callers do with the list
Init == InitOf({"pipeline"})

Next ==
    \/ (For /\ UNCHANGED <<op, extVars, catVars, ppVars, imVars>>)
    \/ (Load /\ UNCHANGED <<op, extVars, catVars, ppVars, imVars>>)
    \/ (Extract /\ UNCHANGED <<op, extVars, catVars, ppVars, imVars>>)
    \/ (Display /\ UNCHANGED <<op, extVars, catVars, ppVars, imVars>>)
    \/ (Except /\ UNCHANGED <<op, extVars, catVars, ppVars, imVars>>)
    \/ (RateLimit /\ UNCHANGED <<op, extVars, catVars, ppVars, imVars>>)
    \/ (Finish /\ UNCHANGED <<op, extVars, catVars, ppVars, imVars>>)
    \/ (AppShowResults /\ UNCHANGED <<op, extVars, catVars, ppVars, imVars>>)
    \/ (ExampleReport /\ UNCHANGED <<op, extVars, catVars, ppVars, imVars>>)

Spec == Init /\ [][Next]_vars

\* the functions called on their own, and the import of the package
FunctionsInit == InitOf({"extract", "categorize", "preprocess", "import"})

FunctionsNext ==
    \/ (ExtractReceiptInfo /\ UNCHANGED <<op, pipeVars, catVars, ppVars, imVars>>)
    \/ (CategorizeExpense /\ UNCHANGED <<op, pipeVars, extVars, ppVars, imVars>>)
    \/ (FilterStep /\ UNCHANGED <<op, pipeVars, extVars, catVars, imVars>>)
    \/ (ReturnImage /\ UNCHANGED <<op, pipeVars, extVars, catVars, imVars>>)
    \/ (ImportStep /\ UNCHANGED <<op, pipeVars, extVars, catVars, ppVars>>)

SpecFunctions == FunctionsInit /\ [][FunctionsNext]_vars

(***************************************************************************)
(* Properties of process_receipt_dataset.                                  *)
(***************************************************************************)
\* process_receipt_dataset has returned its list
ReturnedPcs == {"returned", "app_shown", "example_done", "example_raised"}

Positions == 0..(Len(file_paths) - 1)

EventsAt(ev, i) == {k \in 1..Len(events) : events[k].ev = ev /\ events[k].i = i}

RaisesAt(i, places) ==
    {k \in EventsAt("raise", i) : events[k].what.at \in places}

\* C1: for a non-empty list of paths the function returns, never raises, and
\* the returned list has one entry per input path, in input order:
\* len(results) = len(file_paths) and results[i]['file_path'] = file_paths[i].
\* While it runs, the entries built so far are those of the first paths.
C1_OneEntryPerPathInOrder ==
    op = "pipeline" =>
        /\ Len(results) <= Len(file_paths)
        /\ \A i \in 1..Len(results) : results[i].file_path = file_paths[i]
        /\ pc \in ReturnedPcs => Len(results) = Len(file_paths)
        /\ file_paths # <<>> => pc # "raised"

\* three paths, the first and the last the same, one failure and one success
C1_Witness ==
    /\ op = "pipeline" /\ pc = "returned"
    /\ Len(file_paths) = MaxFiles
    /\ file_paths[1] = file_paths[Len(file_paths)]
    /\ \E i \in 1..Len(results) : HasError(results[i])
    /\ \E i \in 1..Len(results) : ~HasError(results[i])

\* C2: when loading file i or extract_receipt_info for file i raises e, the
\* exception does not leave process_receipt_dataset: the entry of file i is
\* {'error': str(e)} with all four token counts 0, and every later file is
\* still loaded (or its loading attempted) and gets its entry.
C2_ExceptionBecomesErrorEntry ==
    op = "pipeline" =>
        \A i \in Positions :
            \A k \in RaisesAt(i, {"load", "extract"}) :
                /\ pc # "raised"
                /\ Len(results) > i =>
                       /\ results[i + 1].extracted_info
                              = [error |-> Str(<<events[k].what.exc.msg>>)]
                       /\ results[i + 1].token_usage
                              = [prompt |-> 0, thoughts |-> 0, output |-> 0, total |-> 0]
                /\ pc \in ReturnedPcs =>
                       \A j \in Positions :
                           j > i => /\ EventsAt("load", j) \cup RaisesAt(j, {"load"}) # {}
                                    /\ EventsAt("append", j) # {}

\* loading the first file raised, the model call for the second raised, the
\* third file was extracted
C2_Witness ==
    /\ op = "pipeline" /\ pc = "returned"
    /\ Len(file_paths) = MaxFiles
    /\ RaisesAt(0, {"load"}) # {}
    /\ RaisesAt(1, {"extract"}) # {}
    /\ ~HasError(results[Len(results)])

SleepsAt(i) == EventsAt("sleep", i)
AllSleeps   == {k \in 1..Len(events) : events[k].ev = "sleep"}

\* a load of file i, successful or not
LoadAttempts(i) == EventsAt("load", i) \cup RaisesAt(i, {"load"})

\* C3: with n >= 1 files, a sleep of sleep_time seconds happens only when
\* sleep_time > 0, only for a file i < n-1, directly after the entry of file
\* i was appended (also an error entry); with sleep_time > 0 the load of file
\* i+1 directly follows the sleep after file i; there is at most one sleep
\* per file and on return n-1 sleeps when sleep_time > 0, none otherwise.
C3_SleepBetweenConsecutiveFiles ==
    op = "pipeline" =>
        /\ \A k \in AllSleeps :
              /\ sleep_time > 0
              /\ events[k].what = sleep_time
              /\ events[k].i < Len(file_paths) - 1
              /\ k > 1
              /\ events[k - 1].ev = "append"
              /\ events[k - 1].i = events[k].i
        /\ \A i \in Positions : Cardinality(SleepsAt(i)) <= 1
        /\ \A i \in Positions : \A k \in LoadAttempts(i) :
              (i > 0 /\ sleep_time > 0) =>
                  /\ k > 1
                  /\ events[k - 1].ev = "sleep"
                  /\ events[k - 1].i = i - 1
        /\ (pc \in ReturnedPcs) =>
              Cardinality(AllSleeps)
                  = IF sleep_time > 0 THEN Len(file_paths) - 1 ELSE 0

\* three files, the first failed, and a sleep after the first and the second
C3_Witness ==
    /\ op = "pipeline" /\ pc = "returned"
    /\ Len(file_paths) = MaxFiles
    /\ sleep_time > 0
    /\ HasError(results[1])
    /\ Cardinality(AllSleeps) = Len(file_paths) - 1
    /\ SleepsAt(0) # {}

CallsAt(i) == EventsAt("call", i)

C8_EmptyListReturnsEmpty ==
    (op = "pipeline" /\ file_paths = <<>> /\ pc \notin {"for", "finish"}) =>
        /\ pc \in ReturnedPcs
        /\ results = <<>>
        /\ events = <<>>

(***************************************************************************)
(* Properties of extract_receipt_info.                                     *)
(***************************************************************************)
\* C5: when the response text is not valid JSON after the cleanup,
\* extract_receipt_info does not raise: it returns the pair of
\* {'error': 'Failed to parse receipt', 'raw_response': the text as the
\* model gave it} and the usage_metadata of the response.
C5_ParseFailureIsReturned ==
    (/\ op = "extract" /\ ext_result # Idle
     /\ response.kind = "ok" /\ response.text # Null
     /\ ~JsonValid(CleanResponseText(response.text.v))) =>
        /\ ext_result.kind = "return"
        /\ ext_result.info = [error |-> Str(<<"Failed to parse receipt">>),
                              raw_response |-> response.text]
        /\ ext_result.usage = response.usage_metadata

\* a fenced text that the cleanup changes and that still does not parse
C5_Witness ==
    /\ op = "extract" /\ ext_result # Idle
    /\ response.kind = "ok" /\ response.text # Null
    /\ startswith(response.text.v, <<FENCE, "json">>)
    /\ ~JsonValid(CleanResponseText(response.text.v))
    /\ ext_result.kind = "return"
    /\ "raw_response" \in DOMAIN ext_result.info
    /\ ext_result.info.raw_response.v # CleanResponseText(response.text.v)
    /\ ext_result.usage # Null

\* the text without its fences: every FENCE is dropped, and every json
\* that directly follows a FENCE
RECURSIVE WithoutFences(_, _)
WithoutFences(s, i) ==
    IF i > Len(s) THEN <<>>
    ELSE (IF s[i] = FENCE \/ (s[i] = "json" /\ i > 1 /\ s[i - 1] = FENCE)
          THEN <<>> ELSE <<s[i]>>)
         \o WithoutFences(s, i + 1)

\* the text that is parsed, as C11 describes it
ClaimedParsedText(raw) ==
    IF strip(raw) # <<>> /\ Head(strip(raw)) = FENCE
    THEN strip(WithoutFences(strip(raw), 1))
    ELSE strip(raw)

\* what extract_receipt_info gives when json.loads is applied to parsed
OutcomeOfParsing(parsed, resp) ==
    IF ~JsonValid(parsed)
    THEN [kind |-> "return",
          info |-> [error |-> Str(<<"Failed to parse receipt">>),
                    raw_response |-> resp.text],
          usage |-> resp.usage_metadata]
    ELSE IF IsJsonNumber(parsed)
    THEN [kind |-> "raise",
          exc |-> Exc("AttributeError", "int object has no attribute get")]
    ELSE [kind |-> "return",
          info |-> AddSubtotal(json_loads(parsed)),
          usage |-> resp.usage_metadata]

\* the text is other text, then a fenced block holding valid JSON, then at
\* most whitespace
FencedBlockAfterOtherText(raw) ==
    LET st == strip(raw) IN
    \E a \in 2..Len(st) :
        /\ st[a] = FENCE
        /\ st[Len(st)] = FENCE
        /\ \A i \in 1..(a - 1) : st[i] # FENCE
        /\ \E b \in {a + 1, a + 2} :
               /\ b < Len(st)
               /\ b = a + 2 => st[a + 1] = "json"
               /\ JsonValid(SubSeq(st, b, Len(st) - 1))

\* C11: if the stripped response text starts with three backticks, every
\* occurrence of the fence followed by json and then every remaining fence
\* is removed from the whole text, also inside JSON string values, and the
\* result is stripped before it is parsed; otherwise the stripped text is
\* parsed with no fence removed, so that other text followed by a fenced
\* JSON block gives the parse-failure result.
C11_FencesRemovedOnlyWhenTextStartsWithOne ==
    (/\ op = "extract" /\ ext_result # Idle
     /\ response.kind = "ok" /\ response.text # Null) =>
        /\ ext_result = OutcomeOfParsing(ClaimedParsedText(response.text.v), response)
        /\ FencedBlockAfterOtherText(response.text.v) =>
               /\ ext_result.kind = "return"
               /\ "raw_response" \in DOMAIN ext_result.info
               /\ ext_result.info.raw_response = response.text

\* a fence, then an object whose string value holds a fence: the object is
\* parsed and the fence is gone from the value
C11_Witness ==
    /\ op = "extract" /\ ext_result # Idle
    /\ response.kind = "ok" /\ response.text # Null
    /\ response.text.v = <<FENCE, "{m:", FENCE, CLOSE>>
    /\ ext_result.kind = "return"
    /\ "merchant_name" \in DOMAIN ext_result.info
    /\ ext_result.info.merchant_name = Str(<<>>)

\* other text, then a fenced block with valid JSON: the parse failure
C11_WitnessFencedBlockAfterText ==
    /\ op = "extract" /\ ext_result # Idle
    /\ response.kind = "ok" /\ response.text # Null
    /\ FencedBlockAfterOtherText(response.text.v)
    /\ "raw_response" \in DOMAIN ext_result.info

(***************************************************************************)
(* Properties of process_one_image.                                        *)
(***************************************************************************)
\* the result a call is chained to: what the previous call returned
ChainedCalls ==
    /\ Len(pp_calls) >= 1 => pp_calls[1].arg.ops = <<>>
    /\ \A k \in 2..Len(pp_calls) :
           /\ pp_calls[k - 1].ret.kind = "return"
           /\ pp_calls[k].arg = pp_calls[k - 1].ret.value

\* C6, as claimed: process_one_image makes five image-filter calls, in a
\* fixed order, each on the output of the previous one.
C6_FiveFilterCalls ==
    (op = "preprocess" /\ pp_pc = "done") =>
        /\ Len(pp_calls) = 5
        /\ ChainedCalls

\* C6, amended: process_one_image makes four image-filter calls,
\* convert_to_grayscale, reduce_noise, binarize_image, deskew_image, always
\* in that order whatever the input image, each on the output of the
\* previous one; a call that raises ends the chain, and the image returned
\* is the output of the fourth call.
C6_FourFilterCallsInOrder ==
    op = "preprocess" =>
        LET order == <<"convert_to_grayscale", "reduce_noise",
                       "binarize_image", "deskew_image">> IN
        /\ Len(pp_calls) <= Len(order)
        /\ \A k \in 1..Len(pp_calls) : pp_calls[k].fn = order[k]
        /\ ChainedCalls
        /\ pp_pc = "raised" => pp_calls[Len(pp_calls)].ret.kind = "raise"
        /\ pp_pc = "done" =>
               /\ Len(pp_calls) = Len(order)
               /\ pp_calls[Len(order)].ret = Returned(image)
               /\ image.ops = <<"gray", "blur", "binary", "deskew">>

\* a colour image went through the whole chain
C6_Witness ==
    /\ op = "preprocess" /\ pp_pc = "done"
    /\ pp_calls[1].arg.channels = 3
    /\ Len(image.ops) = Len(pp_calls)

(***************************************************************************)
(* Properties of the package import.                                       *)
(***************************************************************************)
\* C7: every name __init__.py imports from a submodule is defined there, and
\* the import of process_receipt_dataset from the package by app.py and
\* example_usage.py raises no ImportError and binds the name.
C7_ImportResolves ==
    op = "import" =>
        /\ im_error = Null
        /\ ImportDone => ImportedName \in namespace

(***************************************************************************)
(* Properties of the CSV exports.                                          *)
(***************************************************************************)
\* the positions of the entries without an error key
GoodEntries == {i \in 1..Len(results) : "error" \notin DOMAIN results[i].extracted_info}

\* the j-th of them, in result order
GoodEntry(j) ==
    results[CHOOSE i \in GoodEntries : Cardinality({g \in GoodEntries : g <= i}) = j]

RowIsOf(row, entry) ==
    /\ row.Merchant = Get(entry.extracted_info, "merchant_name", Str(<<>>))
    /\ row.Total = Get(entry.extracted_info, "total", Num(0))
    /\ row.Subtotal = Get(entry.extracted_info, "subtotal", Num(0))

\* C9: a CSV export has exactly one data row per result entry without an
\* error key, in result order, and none for an entry with one; app.py offers
\* the CSV download exactly when some entry has no error key.
C9_CsvRowsAreTheGoodEntries ==
    (op = "pipeline" /\ export # Idle) =>
        /\ (export.caller = "app" \/ export.csv_offered) =>
               /\ Len(export.csv_rows) = Cardinality(GoodEntries)
               /\ \A j \in 1..Len(export.csv_rows) :
                      RowIsOf(export.csv_rows[j], GoodEntry(j))
        /\ export.caller = "app" => (export.csv_offered <=> GoodEntries # {})

\* app.py: an error entry between two different entries without error
C9_Witness ==
    /\ op = "pipeline" /\ export # Idle /\ export.caller = "app"
    /\ Len(results) = MaxFiles
    /\ GoodEntries = {1, Len(results)}
    /\ export.csv_offered
    /\ Len(export.csv_rows) = Cardinality(GoodEntries)
    /\ export.csv_rows[1] # export.csv_rows[Len(export.csv_rows)]

(***************************************************************************)
(* Properties of categorize_expense.                                       *)
(***************************************************************************)
\* the keyword groups in the order the claim gives
ClaimedGroups ==
    << [category |-> "Meals & Entertainment", keywords |-> food_keywords],
       [category |-> "Office Supplies", keywords |-> office_keywords],
       [category |-> "Transportation", keywords |-> transport_keywords],
       [category |-> "Lodging", keywords |-> lodging_keywords],
       [category |-> "Travel", keywords |-> travel_keywords] >>

\* the groups with a keyword occurring in the lower-cased name
MatchingGroups(name) ==
    {g \in 1..Len(ClaimedGroups) :
        \E k \in 1..Len(ClaimedGroups[g].keywords) :
            contains(lower(name), ClaimedGroups[g].keywords[k])}

====
